---- MODULE Spec2Model ----
(***************************************************************************)
(* HRMS API (src/main.py, src/schemas.py): the request handlers over the   *)
(* document store, as a state machine.                                     *)
(*                                                                         *)
(* A collection is the sequence of its documents in insertion order;       *)
(* find_one / update_one / delete_one act on the first document matching   *)
(* the filter.  A document is a record.  An Optional[T] value is a         *)
(* sequence of length at most one: None is <<>>, the value v is <<v>>.     *)
(* An ObjectId and its string form are different values (a filter on one   *)
(* never matches the other).  The store is assumed reachable: a store      *)
(* failure (an exception out of the driver) is not modelled.               *)
(***************************************************************************)
EXTENDS Integers, Sequences, FiniteSets, TLC

VARIABLES
    users,       \* collection "user"
    sessions,    \* collection "session"
    employees,   \* collection "employee"
    attendance,  \* collection "attendance"
    payroll,     \* collection "payroll"
    now,         \* the clock read by now_utc(), in days
    logins,      \* number of tokens drawn from os.urandom so far
    resp,        \* the last request served and its response
    issued,      \* history: the successful login responses
    loggedOut,   \* history: the tokens logout was called with
    inflight     \* the requests being served, one per worker thread

vars == <<users, sessions, employees, attendance, payroll, now, logins,
          resp, issued, loggedOut, inflight>>

(***************************************************************************)
(* Bounds of the model.                                                    *)
(***************************************************************************)
MaxUsers == 2
MaxLogins == 2
MaxTicks == 1
MaxProfiles == 2
MaxRecords == 2
MaxSlips == 1
MaxAmount == 1
MaxWorkers == 2

(***************************************************************************)
(* Values.                                                                 *)
(***************************************************************************)
None == <<>>
Some(v) == <<v>>

\* bson.ObjectId: the k-th identifier the store assigns in a collection.
ObjectId(coll, k) == [t |-> "oid", c |-> coll, k |-> k]

\* str(ObjectId): the hex string of an identifier (main.py:69, create_document).
StrOf(oid) == [t |-> "str", c |-> oid.c, k |-> oid.k]

\* A string that is the hex form of no identifier the store assigns.
DanglingId == [t |-> "str", c |-> "none", k |-> 0]

\* The empty string (a falsy token).
EmptyToken == 0

\* os.urandom(24).hex(): the n-th draw; draws never repeat and are not empty.
Urandom(n) == n

\* timedelta(days=7)
SessionDays == 7

(***************************************************************************)
(* The document store: pymongo's collection operations, and database.py's  *)
(* create_document / get_documents.                                        *)
(***************************************************************************)
Min(S) == CHOOSE i \in S : \A j \in S : i <= j

\* The positions of the documents of coll on which field f equals v.
Matching(coll, f, v) == {i \in DOMAIN coll : coll[i][f] = v}

\* collection.find_one({f: v}): the first match, or None.
FindOne(coll, f, v) ==
    IF Matching(coll, f, v) = {} THEN None
    ELSE Some(coll[Min(Matching(coll, f, v))])

\* collection.delete_one({f: v}): removes the first match, if any.
DeleteOne(coll, f, v) ==
    IF Matching(coll, f, v) = {} THEN coll
    ELSE LET i == Min(Matching(coll, f, v))
         IN  SubSeq(coll, 1, i - 1) \o SubSeq(coll, i + 1, Len(coll))

\* {"$set": upd} applied to one document.
SetFields(doc, upd) ==
    [k \in DOMAIN doc \cup DOMAIN upd |->
        IF k \in DOMAIN upd THEN upd[k] ELSE doc[k]]

\* collection.insert_one(doc): the store assigns _id.
InsertOne(coll, cname, doc) ==
    Append(coll, SetFields(doc, [_id |-> ObjectId(cname, Len(coll) + 1)]))

\* collection.update_one({f: v}, {"$set": upd}, upsert=True): sets the fields
\* on the first match; with no match inserts {f: v} with the fields set.
UpdateOneUpsert(coll, cname, f, v, upd) ==
    IF Matching(coll, f, v) = {}
    THEN InsertOne(coll, cname, SetFields([x \in {f} |-> v], upd))
    ELSE LET i == Min(Matching(coll, f, v))
         IN  [coll EXCEPT ![i] = SetFields(coll[i], upd)]

\* create_document(collection, data): stamps created_at / updated_at, inserts,
\* and returns the string form of the new identifier.
CreateDocument(coll, cname, data, t) ==
    InsertOne(coll, cname, SetFields(data, [created_at |-> t, updated_at |-> t]))

\* The value create_document returns for the insert into coll.
CreatedId(coll, cname) == StrOf(ObjectId(cname, Len(coll) + 1))

\* The documents of a collection.
Docs(coll) == {coll[i] : i \in DOMAIN coll}

\* get_documents(collection, filter): the documents the filter matches, in
\* order; the filter is given as the set of documents it matches.
GetDocuments(coll, matched) == SelectSeq(coll, LAMBDA d : d \in matched)

(***************************************************************************)
(* Request inputs.                                                         *)
(***************************************************************************)
Names == {"Ann"}
Emails == {"a@x.io", "b@x.io"}
Roles == {"employee", "superadmin"}
Passwords == {"pw1", "pw2"}

\* The tokens a client can present: the empty one (which no login returns)
\* and the ones returned so far, logged out or not.
Tokens == {EmptyToken} \cup {Urandom(n) : n \in 1..logins}

\* The user_id path parameters a client can present: the string forms of the
\* identifiers of the users created so far, and a string that is none of them.
UserIds == {StrOf(users[i]._id) : i \in DOMAIN users} \cup {DanglingId}

\* model_dump(exclude_unset=True) of a request body whose field k, when the
\* client sends it, is null or one of vals[k]: the fields sent, with their values.
Bodies(vals) ==
    UNION {{req \in [S -> {None} \cup {Some(v) : v \in UNION {vals[k] : k \in S}}] :
               \A k \in S : req[k] = None \/ req[k][1] \in vals[k]} :
           S \in SUBSET DOMAIN vals}

(***************************************************************************)
(* Identity & sessions (main.py:47-75).                                    *)
(***************************************************************************)
\* get_user_by_token(token), on the collections given.
UserByToken(ss, us, token) ==
    IF token = EmptyToken THEN None
    ELSE LET session == FindOne(ss, "token", token)
         IN  IF session = None THEN None
             ELSE FindOne(us, "_id", session[1].user_id)

get_user_by_token(token) == UserByToken(sessions, users, token)

\* Mutant of SessionDoc: the user reference stored in its string form, as
\* schemas.Session declares it.
SessionDocStr(user, token, t) ==
    [user_id |-> StrOf(user._id), token |-> token, expires_at |-> t + SessionDays]

\* The session document login inserts.
SessionDoc(user, token, t) ==
    [user_id |-> user._id, token |-> token, expires_at |-> t + SessionDays]

\* LoginResponse(token, role, name, user_id)
LoginResponse(user, token) ==
    [token |-> token, role |-> user.role, name |-> user.name,
     user_id |-> StrOf(user._id)]

\* Mutant of BadCredentials: the password comparison left out.
BadCredentialsNoPassword(us, email, password) ==
    FindOne(us, "email", email) = None

\* Whether login rejects the credentials: no user with the email, or the
\* stored password_hash differs from the password sent.
BadCredentials(us, email, password) ==
    \/ FindOne(us, "email", email) = None
    \/ FindOne(us, "email", email)[1].password_hash # password

login(email, password) ==
    /\ IF BadCredentials(users, email, password)
       THEN /\ resp' = [op |-> "login", status |-> 401, email |-> email,
                        password |-> password, detail |-> "Invalid credentials"]
            /\ UNCHANGED <<sessions, logins, issued>>
       ELSE LET user == FindOne(users, "email", email)[1]
                token == Urandom(logins + 1)
            IN  /\ logins < MaxLogins
                /\ logins' = logins + 1
                /\ sessions' = InsertOne(sessions, "session",
                                         SessionDoc(user, token, now))
                /\ resp' = [op |-> "login", status |-> 200, email |-> email,
                            password |-> password,
                            body |-> LoginResponse(user, token)]
                /\ issued' = issued \cup {LoginResponse(user, token)}
    /\ UNCHANGED <<users, employees, attendance, payroll, now, loggedOut, inflight>>

\* Mutant of logout: every session of the token's user is deleted.
logoutEverywhere(token) ==
    /\ sessions' =
          IF FindOne(sessions, "token", token) = None THEN sessions
          ELSE SelectSeq(sessions, LAMBDA s :
                   s.user_id # FindOne(sessions, "token", token)[1].user_id)
    /\ resp' = [op |-> "logout", status |-> 200, token |-> token]
    /\ loggedOut' = loggedOut \cup {token}
    /\ UNCHANGED <<users, employees, attendance, payroll, now, logins, issued, inflight>>

logout(token) ==
    /\ sessions' = DeleteOne(sessions, "token", token)
    /\ resp' = [op |-> "logout", status |-> 200, token |-> token]
    /\ loggedOut' = loggedOut \cup {token}
    /\ UNCHANGED <<users, employees, attendance, payroll, now, logins, issued, inflight>>

\* A request handler resolving the bearer token it was sent.
resolve(token) ==
    /\ resp' = [op |-> "resolve", status |-> 200, token |-> token,
                user |-> get_user_by_token(token)]
    /\ UNCHANGED <<users, sessions, employees, attendance, payroll, now, logins,
                   issued, loggedOut, inflight>>

\* Time passes between requests.
Tick ==
    /\ now < MaxTicks * SessionDays
    /\ now' = now + SessionDays
    /\ resp' = [op |-> "tick", status |-> 0]
    /\ UNCHANGED <<users, sessions, employees, attendance, payroll, logins,
                   issued, loggedOut, inflight>>

(***************************************************************************)
(* Users and employee profiles (main.py:86-96, 141-158; schemas.py).       *)
(***************************************************************************)
\* User(name, email, role, password_hash, is_active=True).model_dump()
UserDoc(name, email, role, password) ==
    [name |-> name, email |-> email, role |-> role, password_hash |-> password,
     is_active |-> TRUE]

\* The Optional fields of schemas.Employee.
EmployeeFields ==
    {"department_id", "designation", "join_date", "work_email", "phone",
     "address", "bank", "statutory", "salary"}

\* Employee(user_id=user_id).model_dump(): every other field None.
EmployeeDoc(user_id) ==
    SetFields([k \in EmployeeFields |-> None], [user_id |-> user_id])

\* Mutant of EmailTaken: the lookup made on the wrong field.
EmailTakenByName(us, email) == FindOne(us, "name", email) # None

\* create_user's existence check.
EmailTaken(us, email) == FindOne(us, "email", email) # None

\* create_user's first write.
InsertUser(us, name, email, role, password, t) ==
    CreateDocument(us, "user", UserDoc(name, email, role, password), t)

\* Mutant of InsertProfile: the profile created whatever the role.
InsertProfileAlways(es, role, user_id, t) ==
    CreateDocument(es, "employee", EmployeeDoc(user_id), t)

\* create_user's second write, made for the role "employee" only.
InsertProfile(es, role, user_id, t) ==
    IF role = "employee"
    THEN CreateDocument(es, "employee", EmployeeDoc(user_id), t)
    ELSE es

create_user(name, email, role, password) ==
    /\ IF EmailTaken(users, email)
       THEN /\ resp' = [op |-> "create_user", status |-> 400, email |-> email,
                        role |-> role, detail |-> "Email already exists"]
            /\ UNCHANGED <<users, employees>>
       ELSE /\ Len(users) < MaxUsers
            /\ role = "employee" => Len(employees) < MaxProfiles
            /\ users' = InsertUser(users, name, email, role, password, now)
            /\ employees' = InsertProfile(employees, role,
                                          CreatedId(users, "user"), now)
            /\ resp' = [op |-> "create_user", status |-> 200, email |-> email,
                        role |-> role, _id |-> CreatedId(users, "user")]
    /\ UNCHANGED <<sessions, attendance, payroll, now, logins, issued,
                   loggedOut, inflight>>

\* update_employee's lazy create: an empty profile when none matches.
EnsureProfile(es, user_id, t) ==
    IF FindOne(es, "user_id", user_id) = None
    THEN CreateDocument(es, "employee", EmployeeDoc(user_id), t)
    ELSE es

\* Mutant of UpdateData: the None values kept.
UpdateDataWithNulls(req) == req

\* update_data: the fields of the body whose value is not None.
UpdateData(req) == [k \in {f \in DOMAIN req : req[f] # None} |-> req[k]]

\* update_employee's upsert of update_data.
ApplyUpdate(es, user_id, req) ==
    UpdateOneUpsert(es, "employee", "user_id", user_id, UpdateData(req))

\* The status of update_employee: the server decides whether an empty $set
\* is an error (it is before MongoDB 5.0).
UpdateStatus(req, emptySetOk) ==
    IF UpdateData(req) = <<>> /\ ~emptySetOk THEN 500 ELSE 200

update_employee(user_id, req, emptySetOk) ==
    /\ FindOne(employees, "user_id", user_id) = None => Len(employees) < MaxProfiles
    /\ employees' =
          IF UpdateStatus(req, emptySetOk) = 200
          THEN ApplyUpdate(EnsureProfile(employees, user_id, now), user_id, req)
          ELSE EnsureProfile(employees, user_id, now)
    /\ resp' = [op |-> "update_employee", status |-> UpdateStatus(req, emptySetOk),
                user_id |-> user_id, req |-> req]
    /\ UNCHANGED <<users, sessions, attendance, payroll, now, logins, issued,
                   loggedOut, inflight>>

get_employee(user_id) ==
    /\ resp' = IF FindOne(employees, "user_id", user_id) = None
               THEN [op |-> "get_employee", status |-> 404, user_id |-> user_id]
               ELSE [op |-> "get_employee", status |-> 200, user_id |-> user_id,
                     body |-> SetFields(FindOne(employees, "user_id", user_id)[1],
                                [_id |-> StrOf(FindOne(employees, "user_id", user_id)[1]._id)])]
    /\ UNCHANGED <<users, sessions, employees, attendance, payroll, now, logins,
                   issued, loggedOut, inflight>>

(***************************************************************************)
(* The service with one request served at a time.                          *)
(***************************************************************************)
Idle == [pc |-> "idle"]

Init ==
    /\ users = <<>>
    /\ sessions = <<>>
    /\ employees = <<>>
    /\ attendance = <<>>
    /\ payroll = <<>>
    /\ now = 0
    /\ logins = 0
    /\ resp = [op |-> "init", status |-> 0]
    /\ issued = {}
    /\ loggedOut = {}
    /\ inflight = [w \in 1..MaxWorkers |-> Idle]

Login == \E e \in Emails, p \in Passwords : login(e, p)
Logout == \E t \in Tokens : logout(t)
Resolve == \E t \in Tokens : resolve(t)

\* The administrators of this specification create superadmin users only.
CreateAdmin == \E n \in Names, e \in Emails, p \in Passwords :
                   create_user(n, e, "superadmin", p)

Next ==
    \/ Login
    \/ Logout
    \/ Resolve
    \/ CreateAdmin
    \/ Tick

Spec == Init /\ [][Next]_vars

(***************************************************************************)
(* The profile service: users are created and profiles updated and read.   *)
(***************************************************************************)
\* The profile fields and values the clients of this specification send.
ProfileBodies == Bodies([designation |-> {"dev", "ops"}, phone |-> {"555"}])

\* The administrators of this specification create users of either role,
\* all with one email address.
CreateUser == \E n \in Names, r \in Roles :
                  create_user(n, "a@x.io", r, "pw1")
UpdateEmployee == \E u \in UserIds, req \in ProfileBodies, ok \in BOOLEAN :
                      /\ UpdateData(req) # <<>> => ok
                      /\ update_employee(u, req, ok)
GetEmployee == \E u \in UserIds : get_employee(u)

NextProfile ==
    \/ CreateUser
    \/ UpdateEmployee
    \/ GetEmployee

SpecProfile == Init /\ [][NextProfile]_vars

(***************************************************************************)
(* Payroll (main.py:225-255; schemas.Payroll, PayrollItem).                *)
(***************************************************************************)
\* Field(..., ge=1, le=12) and Field(..., ge=2000, le=2200) of schemas.Payroll
PayrollMinMonth == 1
PayrollMaxMonth == 12
PayrollMinYear == 2000
PayrollMaxYear == 2200

\* The fields of schemas.SalaryStructure.
SalaryFields == {"basic", "hra", "special_allowance", "other_earnings", "deductions"}

\* float(salary.get(f, 0)): the stored amounts are floats already.
SalaryGet(salary, f) == IF f \in DOMAIN salary THEN salary[f] ELSE 0

\* Mutant of Gross: other_earnings left out of the sum.
GrossWithoutOther(salary) ==
    SalaryGet(salary, "basic") + SalaryGet(salary, "hra")
        + SalaryGet(salary, "special_allowance")

\* gross = basic + hra + special + other
Gross(salary) ==
    SalaryGet(salary, "basic") + SalaryGet(salary, "hra")
        + SalaryGet(salary, "special_allowance") + SalaryGet(salary, "other_earnings")

\* net = gross - deductions
Net(salary) == Gross(salary) - SalaryGet(salary, "deductions")

\* PayrollItem(label, amount)
PayrollItem(label, amount) == [label |-> label, amount |-> amount]

\* Whether Payroll(...) validates: month and year within the schema's ranges.
PayrollValid(month, year) ==
    /\ PayrollMinMonth <= month /\ month <= PayrollMaxMonth
    /\ PayrollMinYear <= year /\ year <= PayrollMaxYear

\* Payroll(...).model_dump() as generate_payslip builds it.
PayrollDoc(user_id, month, year, salary) ==
    [user_id |-> user_id, month |-> month, year |-> year,
     earnings |-> <<PayrollItem("Basic", SalaryGet(salary, "basic")),
                    PayrollItem("HRA", SalaryGet(salary, "hra")),
                    PayrollItem("Special Allowance",
                                SalaryGet(salary, "special_allowance")),
                    PayrollItem("Other Earnings",
                                SalaryGet(salary, "other_earnings"))>>,
     deductions |-> <<PayrollItem("Deductions", SalaryGet(salary, "deductions"))>>,
     gross |-> Gross(salary), net |-> Net(salary),
     generated_by |-> None, status |-> "generated"]

\* not emp or not emp.get("salary"): no profile, a None salary or an empty one.
NoSalary(es, user_id) ==
    \/ FindOne(es, "user_id", user_id) = None
    \/ FindOne(es, "user_id", user_id)[1].salary = None
    \/ FindOne(es, "user_id", user_id)[1].salary[1] = <<>>

generate_payslip(user_id, month, year) ==
    /\ IF NoSalary(employees, user_id)
       THEN /\ resp' = [op |-> "generate_payslip", status |-> 400,
                        user_id |-> user_id, month |-> month, year |-> year,
                        detail |-> "Salary structure not defined"]
            /\ UNCHANGED payroll
       ELSE IF ~PayrollValid(month, year)
       THEN /\ resp' = [op |-> "generate_payslip", status |-> 500,
                        user_id |-> user_id, month |-> month, year |-> year,
                        detail |-> "ValidationError"]
            /\ UNCHANGED payroll
       ELSE LET salary == FindOne(employees, "user_id", user_id)[1].salary[1]
            IN  /\ Len(payroll) < MaxSlips
                /\ payroll' = CreateDocument(payroll, "payroll",
                                  PayrollDoc(user_id, month, year, salary), now)
                /\ resp' = [op |-> "generate_payslip", status |-> 200,
                            user_id |-> user_id, month |-> month, year |-> year,
                            _id |-> CreatedId(payroll, "payroll"),
                            gross |-> Gross(salary), net |-> Net(salary)]
    /\ UNCHANGED <<users, sessions, employees, attendance, now, logins, issued,
                   loggedOut, inflight>>

\* The string form of the _id of every document of a list.
WithStrIds(docs) == [i \in DOMAIN docs |-> SetFields(docs[i], [_id |-> StrOf(docs[i]._id)])]

list_payslips(user_id) ==
    /\ resp' = [op |-> "list_payslips", status |-> 200, user_id |-> user_id,
                items |-> WithStrIds(GetDocuments(payroll,
                              {d \in Docs(payroll) : d.user_id = user_id}))]
    /\ UNCHANGED <<users, sessions, employees, attendance, payroll, now, logins,
                   issued, loggedOut, inflight>>

(***************************************************************************)
(* The payroll service: payslips are generated for a profile whose salary  *)
(* a client has set with update_employee.                                  *)
(***************************************************************************)
\* The user the payslips are for; the service does not check that it exists.
PayUser == DanglingId

\* SalaryStructure bodies as update_employee dumps them (exclude_unset): the
\* fields the client sent, each an amount.
SalaryBodies ==
    UNION {[S -> 0..MaxAmount] : S \in SUBSET SalaryFields}
        \cup {[basic |-> 30000, hra |-> 12000, special_allowance |-> 5000,
                other_earnings |-> 0, deductions |-> 3000]}

\* The employee collections the profile service leaves for PayUser: none, an
\* empty profile, and a profile with each salary body.
SalaryProfiles ==
    {<<>>, EnsureProfile(<<>>, PayUser, 0)}
        \cup {ApplyUpdate(EnsureProfile(<<>>, PayUser, 0), PayUser,
                          [salary |-> Some(s)]) : s \in SalaryBodies}

InitPayroll ==
    /\ users = <<>>
    /\ sessions = <<>>
    /\ employees \in SalaryProfiles
    /\ attendance = <<>>
    /\ payroll = <<>>
    /\ now = 0
    /\ logins = 0
    /\ resp = [op |-> "init", status |-> 0]
    /\ issued = {}
    /\ loggedOut = {}
    /\ inflight = [w \in 1..MaxWorkers |-> Idle]

PayMonths == {PayrollMinMonth, PayrollMaxMonth, PayrollMaxMonth + 1}
PayYears == {PayrollMinYear - 1, PayrollMinYear, PayrollMaxYear}

GeneratePayslip == \E m \in PayMonths, y \in PayYears : generate_payslip(PayUser, m, y)
ListPayslips == list_payslips(PayUser)

NextPayroll ==
    \/ GeneratePayslip
    \/ ListPayslips

SpecPayroll == InitPayroll /\ [][NextPayroll]_vars

(***************************************************************************)
(* Attendance (main.py:169-187).                                           *)
(***************************************************************************)
\* datetime.MINYEAR and datetime.MAXYEAR: datetime(...) raises outside them.
MinYear == 1
MaxYear == 9999

\* A calendar date.
Date(y, m, d) == [y |-> y, m |-> m, d |-> d]

\* a < b on dates.
DateLess(a, b) ==
    \/ a.y < b.y
    \/ a.y = b.y /\ a.m < b.m
    \/ a.y = b.y /\ a.m = b.m /\ a.d < b.d

\* Whether datetime(year, month, 1) is a value (it raises ValueError if not).
DatetimeOk(year, month) ==
    /\ MinYear <= year /\ year <= MaxYear
    /\ 1 <= month /\ month <= 12

\* Python truth of an Optional[int]: neither None nor 0.
Truthy(x) == x # None /\ x[1] # 0

\* start = datetime(year, month, 1).date()
RangeStart(year, month) == Date(year, month, 1)

\* Mutant of RangeEndYear: December does not roll into the next year.
RangeEndYearSame(year, month) == year

\* The year and the month of end = datetime(year + (1 if month == 12 else 0),
\*                                          1 if month == 12 else month + 1, 1)
RangeEndYear(year, month) == year + (IF month = 12 THEN 1 ELSE 0)
RangeEndMonth(month) == IF month = 12 THEN 1 ELSE month + 1

\* The query get_attendance builds: the user's records, within
\* {"$gte": start, "$lt": end} when the month filter applies.
AttendanceQuery(user_id, month, year, doc) ==
    /\ doc.user_id = user_id
    /\ (Truthy(month) /\ Truthy(year)) =>
          /\ ~DateLess(doc.date, RangeStart(year[1], month[1]))
          /\ DateLess(doc.date, Date(RangeEndYear(year[1], month[1]),
                                     RangeEndMonth(month[1]), 1))

\* Whether building the query raises: a datetime out of range.
AttendanceQueryRaises(month, year) ==
    /\ Truthy(month) /\ Truthy(year)
    /\ \/ ~DatetimeOk(year[1], month[1])
       \/ ~DatetimeOk(RangeEndYear(year[1], month[1]), RangeEndMonth(month[1]))

\* AttendanceRequest(date, status, check_in, check_out).model_dump() with user_id
AttendanceDoc(user_id, date, status) ==
    [date |-> date, status |-> status, check_in |-> None, check_out |-> None,
     user_id |-> user_id]

mark_attendance(user_id, date, status) ==
    /\ Len(attendance) < MaxRecords
    /\ attendance' = CreateDocument(attendance, "attendance",
                                    AttendanceDoc(user_id, date, status), now)
    /\ resp' = [op |-> "mark_attendance", status |-> 200, user_id |-> user_id]
    /\ UNCHANGED <<users, sessions, employees, payroll, now, logins, issued,
                   loggedOut, inflight>>

get_attendance(user_id, month, year) ==
    /\ resp' = IF AttendanceQueryRaises(month, year)
               THEN [op |-> "get_attendance", status |-> 500, user_id |-> user_id,
                     month |-> month, year |-> year, detail |-> "ValueError"]
               ELSE [op |-> "get_attendance", status |-> 200, user_id |-> user_id,
                     month |-> month, year |-> year,
                     items |-> WithStrIds(GetDocuments(attendance,
                         {d \in Docs(attendance) :
                             AttendanceQuery(user_id, month, year, d)}))]
    /\ UNCHANGED <<users, sessions, employees, attendance, payroll, now, logins,
                   issued, loggedOut, inflight>>

(***************************************************************************)
(* The attendance service.                                                 *)
(***************************************************************************)
\* The users attendance is recorded for; the service does not check them.
AttUsers == {DanglingId, StrOf(ObjectId("user", 1))}

\* The dates recorded: around the ends of January, February and December.
AttDates ==
    {Date(2024, 1, 31), Date(2024, 2, 1), Date(2024, 2, 29), Date(2024, 3, 1),
     Date(2024, 12, 1), Date(2025, 1, 1)}

\* The month and year query parameters sent: absent, or a number.
MonthArgs == {None} \cup {Some(m) : m \in {0, 1, 2, 12, 13}}
YearArgs == {None} \cup {Some(y) : y \in {0, 2024, MaxYear}}

MarkAttendance == \E u \in AttUsers, d \in AttDates : mark_attendance(u, d, "present")
GetAttendance == \E u \in AttUsers, m \in MonthArgs, y \in YearArgs :
                     get_attendance(u, m, y)

NextAttendance ==
    \/ MarkAttendance
    \/ GetAttendance

SpecAttendance == Init /\ [][NextAttendance]_vars

(***************************************************************************)
(* The profile service with requests served concurrently: the handlers are *)
(* plain functions, which the framework runs on a pool of worker threads,  *)
(* so the store operations of one request interleave with those of the     *)
(* others.  A step is one store operation of one request.                  *)
(***************************************************************************)
Workers == 1..MaxWorkers

\* create_user, line 88: the existence check.
CuFind(w, name, email, role, password) ==
    /\ inflight[w] = Idle
    /\ IF EmailTaken(users, email)
       THEN /\ resp' = [op |-> "create_user", status |-> 400, email |-> email,
                        role |-> role, detail |-> "Email already exists"]
            /\ UNCHANGED inflight
       ELSE /\ inflight' = [inflight EXCEPT ![w] =
                   [pc |-> "cu_insert_user", name |-> name, email |-> email,
                    role |-> role, password |-> password]]
            /\ UNCHANGED resp
    /\ UNCHANGED <<users, sessions, employees, attendance, payroll, now, logins,
                   issued, loggedOut>>

\* create_user, lines 90-91: the user is inserted.
CuInsertUser(w) ==
    /\ inflight[w].pc = "cu_insert_user"
    /\ Len(users) < MaxUsers
    /\ users' = InsertUser(users, inflight[w].name, inflight[w].email,
                           inflight[w].role, inflight[w].password, now)
    /\ IF inflight[w].role = "employee"
       THEN /\ inflight' = [inflight EXCEPT ![w] =
                   [pc |-> "cu_insert_profile", email |-> inflight[w].email,
                    role |-> inflight[w].role,
                    user_id |-> CreatedId(users, "user")]]
            /\ UNCHANGED resp
       ELSE /\ inflight' = [inflight EXCEPT ![w] = Idle]
            /\ resp' = [op |-> "create_user", status |-> 200,
                        email |-> inflight[w].email, role |-> inflight[w].role,
                        _id |-> CreatedId(users, "user")]
    /\ UNCHANGED <<sessions, employees, attendance, payroll, now, logins, issued,
                   loggedOut>>

\* create_user, lines 93-96: the profile is inserted and the request returns.
CuInsertProfile(w) ==
    /\ inflight[w].pc = "cu_insert_profile"
    /\ Len(employees) < MaxProfiles
    /\ employees' = InsertProfile(employees, inflight[w].role,
                                  inflight[w].user_id, now)
    /\ inflight' = [inflight EXCEPT ![w] = Idle]
    /\ resp' = [op |-> "create_user", status |-> 200, email |-> inflight[w].email,
                role |-> inflight[w].role, _id |-> inflight[w].user_id]
    /\ UNCHANGED <<users, sessions, attendance, payroll, now, logins, issued,
                   loggedOut>>

\* update_employee, lines 143-144: the lookup.
UeFind(w, user_id, req, emptySetOk) ==
    /\ inflight[w] = Idle
    /\ inflight' = [inflight EXCEPT ![w] =
          [pc |-> IF FindOne(employees, "user_id", user_id) = None
                  THEN "ue_create" ELSE "ue_update",
           user_id |-> user_id, req |-> req, emptySetOk |-> emptySetOk]]
    /\ UNCHANGED <<users, sessions, employees, attendance, payroll, now, logins,
                   resp, issued, loggedOut>>

\* update_employee, line 146: the lazy create.
UeCreate(w) ==
    /\ inflight[w].pc = "ue_create"
    /\ Len(employees) < MaxProfiles
    /\ employees' = CreateDocument(employees, "employee",
                                   EmployeeDoc(inflight[w].user_id), now)
    /\ inflight' = [inflight EXCEPT ![w].pc = "ue_update"]
    /\ UNCHANGED <<users, sessions, attendance, payroll, now, logins, resp, issued,
                   loggedOut>>

\* update_employee, lines 147-149: the upsert, and the request returns.
UeUpdate(w) ==
    /\ inflight[w].pc = "ue_update"
    /\ employees' =
          IF UpdateStatus(inflight[w].req, inflight[w].emptySetOk) = 200
          THEN ApplyUpdate(employees, inflight[w].user_id, inflight[w].req)
          ELSE employees
    /\ inflight' = [inflight EXCEPT ![w] = Idle]
    /\ resp' = [op |-> "update_employee",
                status |-> UpdateStatus(inflight[w].req, inflight[w].emptySetOk),
                user_id |-> inflight[w].user_id, req |-> inflight[w].req]
    /\ UNCHANGED <<users, sessions, attendance, payroll, now, logins, issued,
                   loggedOut>>

\* The bodies the clients of this specification send.
ConcurrentBodies == Bodies([designation |-> {"dev"}])

CreateUserStarts == \E w \in Workers, n \in Names, r \in Roles :
                        CuFind(w, n, "a@x.io", r, "pw1")
CreateUserInserts == \E w \in Workers : CuInsertUser(w)
CreateUserProfiles == \E w \in Workers : CuInsertProfile(w)
UpdateStarts == \E w \in Workers, u \in UserIds, req \in ConcurrentBodies,
                   ok \in BOOLEAN :
                    /\ UpdateData(req) # <<>> => ok
                    /\ UeFind(w, u, req, ok)
UpdateCreates == \E w \in Workers : UeCreate(w)
UpdateUpserts == \E w \in Workers : UeUpdate(w)

NextConcurrent ==
    \/ CreateUserStarts
    \/ CreateUserInserts
    \/ CreateUserProfiles
    \/ UpdateStarts
    \/ UpdateCreates
    \/ UpdateUpserts

SpecConcurrent == Init /\ [][NextConcurrent]_vars

(***************************************************************************)
(* Properties of the identity and session service, under Spec.             *)
(***************************************************************************)
\* The sessions of ss whose token is not t, in order.
SessionsWithout(ss, t) == SelectSeq(ss, LAMBDA s : s.token # t)

\* C1: after a login that returned token t and user_id u, get_user_by_token(t)
\* returns the user whose identifier is u in every state in which logout(t)
\* has not been called, whatever ran in between.
C1_LoginThenResolve ==
    \A r \in issued :
        r.token \notin loggedOut =>
            /\ get_user_by_token(r.token) # None
            /\ StrOf(get_user_by_token(r.token)[1]._id) = r.user_id

\* C1's case: a token is resolved to its user after another user was created,
\* another token was issued and logged out, and its own expiry time passed.
C1_Witness ==
    /\ resp.op = "resolve"
    /\ resp.user # None
    /\ \E r \in issued :
          /\ r.token = resp.token
          /\ r.token \notin loggedOut
          /\ StrOf(resp.user[1]._id) = r.user_id
          /\ FindOne(sessions, "token", r.token)[1].expires_at <= now
    /\ \E r \in issued : r.token \in loggedOut
    /\ Len(users) = 2

\* C2: login with an email no user has, or with a password that is not the
\* stored credential of the user with that email, fails with 401 and leaves
\* the session collection unchanged.
C2_BadLoginRejected ==
    [][(/\ resp'.op = "login"
        /\ ~\E i \in DOMAIN users : /\ users[i].email = resp'.email
                                    /\ users[i].password_hash = resp'.password)
       => (resp'.status = 401 /\ sessions' = sessions)]_vars

\* C2's case: a login with the email of a user and a wrong password was
\* rejected while sessions exist.
C2_Witness ==
    /\ resp.op = "login"
    /\ resp.status = 401
    /\ \E i \in DOMAIN users : users[i].email = resp.email
    /\ sessions # <<>>

\* C3: logout(token) returns success for every token; afterwards no session
\* has the token and the token resolves to none; the sessions with other
\* tokens are unchanged.
C3_LogoutRemovesOnlyToken ==
    [][resp'.op = "logout"
       => (/\ resp'.status = 200
           /\ \A i \in DOMAIN sessions' : sessions'[i].token # resp'.token
           /\ UserByToken(sessions', users', resp'.token) = None
           /\ sessions' = SessionsWithout(sessions, resp'.token))]_vars

\* C3's case: a token with a session was logged out and another session of the
\* same user remains.
C3_Witness ==
    /\ resp.op = "logout"
    /\ \E r \in issued :
          /\ r.token = resp.token
          /\ \E i \in DOMAIN sessions : StrOf(sessions[i].user_id) = r.user_id

(***************************************************************************)
(* Properties of the profile service, under SpecProfile.                   *)
(***************************************************************************)
\* C4: create_user with an email an existing user has fails (400, "Email
\* already exists") and writes nothing to the user and employee collections.
C4_DuplicateEmailRejected ==
    [][(/\ resp'.op = "create_user"
        /\ \E i \in DOMAIN users : users[i].email = resp'.email)
       => (/\ resp'.status = 400
           /\ users' = users
           /\ employees' = employees)]_vars

\* C4's case: a create_user was rejected while a user and a profile exist.
C4_Witness ==
    /\ resp.op = "create_user"
    /\ resp.status = 400
    /\ \E i \in DOMAIN users : users[i].email = resp.email
    /\ employees # <<>>

ProfileOrEmpty(es, user_id) ==
    IF FindOne(es, "user_id", user_id) = None THEN EmployeeDoc(user_id)
    ELSE FindOne(es, "user_id", user_id)[1]

\* C7: update_employee sets the top-level fields the body gives a non-null
\* value and leaves every other field of the profile, and every other
\* profile, as it was (a profile it creates starts empty).
C7_UpdateMerges ==
    [][resp'.op = "update_employee"
       => LET uid == resp'.user_id
              req == resp'.req
              before == ProfileOrEmpty(employees, uid)
              after == FindOne(employees', "user_id", uid)
          IN  /\ after # None
              /\ \A k \in DOMAIN before :
                    after[1][k] = IF k \in DOMAIN req /\ req[k] # None
                                  THEN req[k] ELSE before[k]
              /\ \A i \in DOMAIN employees :
                    employees[i].user_id # uid => employees'[i] = employees[i]
              /\ Cardinality(Matching(employees', "user_id", uid)) = 1]_vars

\* C7's case: a second update supplied phone and a null designation, and the
\* profile holds the designation of the first update and the new phone.
C7_Witness ==
    /\ resp.op = "update_employee"
    /\ DOMAIN resp.req = {"designation", "phone"}
    /\ resp.req.designation = None
    /\ resp.req.phone # None
    /\ FindOne(employees, "user_id", resp.user_id)[1].designation = Some("ops")
    /\ FindOne(employees, "user_id", resp.user_id)[1].phone = resp.req.phone
    /\ Len(employees) = 2

(***************************************************************************)
(* Properties of the payroll service, under SpecPayroll.                   *)
(***************************************************************************)
\* A salary field's amount, a missing field counting as 0.
Amount(salary, f) == IF f \in DOMAIN salary THEN salary[f] ELSE 0

\* Whether the profile of user_id in es has a non-empty salary structure.
HasSalary(es, user_id) ==
    \E i \in DOMAIN es : /\ es[i].user_id = user_id
                         /\ es[i].salary # None
                         /\ es[i].salary[1] # <<>>

\* The salary structure of user_id's profile in es.
SalaryOf(es, user_id) ==
    es[CHOOSE i \in DOMAIN es : es[i].user_id = user_id].salary[1]

\* What C6 says of a step that served generate_payslip for a profile with the
\* salary structure s: one payslip is added, with status "generated", the four
\* earnings and the one deduction of s, gross their sum of earnings and net =
\* gross - deductions, and the response has the same gross and net.
PayslipPersisted(s, r, before, after) ==
    /\ r.status = 200
    /\ Len(after) = Len(before) + 1
    /\ SubSeq(after, 1, Len(before)) = before
    /\ LET slip == after[Len(after)]
           gross == Amount(s, "basic") + Amount(s, "hra")
                      + Amount(s, "special_allowance") + Amount(s, "other_earnings")
       IN  /\ slip.user_id = r.user_id
           /\ slip.month = r.month
           /\ slip.year = r.year
           /\ slip.status = "generated"
           /\ slip.earnings =
                 <<[label |-> "Basic", amount |-> Amount(s, "basic")],
                   [label |-> "HRA", amount |-> Amount(s, "hra")],
                   [label |-> "Special Allowance",
                    amount |-> Amount(s, "special_allowance")],
                   [label |-> "Other Earnings",
                    amount |-> Amount(s, "other_earnings")]>>
           /\ slip.deductions =
                 <<[label |-> "Deductions", amount |-> Amount(s, "deductions")]>>
           /\ slip.gross = gross
           /\ slip.net = gross - Amount(s, "deductions")
           /\ r.gross = slip.gross
           /\ r.net = slip.net

FirstOfFollowing(y, m) == IF m = 12 THEN Date(y + 1, 1, 1) ELSE Date(y, m + 1, 1)

\* first-day-of(y, m) <= d < first-day-of the following month
InMonth(d, y, m) == ~DateLess(d, Date(y, m, 1)) /\ DateLess(d, FirstOfFollowing(y, m))

\* The attendance records of user_id, as returned.
RecordsOf(user_id) ==
    WithStrIds(SelectSeq(attendance, LAMBDA d : d.user_id = user_id))

\* The attendance records of user_id dated in month m of year y, as returned.
RecordsInMonth(user_id, y, m) ==
    WithStrIds(SelectSeq(attendance,
                         LAMBDA d : d.user_id = user_id /\ InMonth(d.date, y, m)))

\* C8 as stated: with a month in 1..12 and a year supplied, get_attendance
\* returns exactly the user's records dated in that month; with month or year
\* not supplied it returns all the user's records.
C8_AnyYear ==
    resp.op = "get_attendance" =>
        /\ (resp.month # None /\ resp.year # None /\ resp.month[1] \in 1..12)
              => /\ resp.status = 200
                 /\ resp.items = RecordsInMonth(resp.user_id, resp.year[1],
                                                resp.month[1])
        /\ (resp.month = None \/ resp.year = None)
              => /\ resp.status = 200
                 /\ resp.items = RecordsOf(resp.user_id)

\* C8 as amended: the month filter applies for a month in 1..12 and a year in
\* 1..9999 other than December 9999; with month or year not supplied, or 0,
\* get_attendance returns all the user's records.
C8_NonZeroYear ==
    resp.op = "get_attendance" =>
        /\ (/\ resp.month # None /\ resp.year # None
            /\ resp.month[1] \in 1..12
            /\ resp.year[1] \in MinYear..MaxYear
            /\ ~(resp.month[1] = 12 /\ resp.year[1] = MaxYear))
              => /\ resp.status = 200
                 /\ resp.items = RecordsInMonth(resp.user_id, resp.year[1],
                                                resp.month[1])
        /\ (resp.month \in {None, Some(0)} \/ resp.year \in {None, Some(0)})
              => /\ resp.status = 200
                 /\ resp.items = RecordsOf(resp.user_id)

\* C8's case: the December query returned the user's record of 1 December and
\* not the one of 1 January of the next year.
C8_Witness ==
    /\ resp.op = "get_attendance"
    /\ resp.month = Some(12)
    /\ resp.year = Some(2024)
    /\ Len(resp.items) = 1
    /\ resp.items[1].date = Date(2024, 12, 1)
    /\ \E i \in DOMAIN attendance : /\ attendance[i].user_id = resp.user_id
                                    /\ attendance[i].date = Date(2025, 1, 1)

(***************************************************************************)
(* Properties of the concurrent profile service, under SpecConcurrent.     *)
(***************************************************************************)
\* C9: no two user records have the same email, also when create_user calls
\* interleave.
C9_EmailsUnique ==
    \A i, j \in DOMAIN users : users[i].email = users[j].email => i = j

\* C10: at most one employee record has a given user reference, also when
\* update_employee calls interleave with each other or with create_user.
C10_OneProfilePerUser ==
    \A i, j \in DOMAIN employees :
        employees[i].user_id = employees[j].user_id => i = j

====
